---- MODULE Spec2Model ----
(***************************************************************************)
(* K-Means (class k_means) and Gaussian Mixture Model (class gmm) of       *)
(* ML_PA2.py as state machines.                                            *)
(*                                                                         *)
(* Points are one-dimensional (input_data has shape (N, 1)) with integer   *)
(* coordinates, so that np.linalg.norm is the absolute value and every     *)
(* mean is an exact rational.  A float is a pair <<num, den>>: den > 0 is  *)
(* the rational num/den in lowest terms, <<0, 0>> is NaN, <<1, 0>> is +inf *)
(* and <<-1, 0>> is -inf.                                                  *)
(***************************************************************************)
EXTENDS Integers, Sequences, FiniteSets

VARIABLES
    pc,                 \* position in execute() / the caller
    input_data,         \* self.input_data: sequence of point coordinates
    n_clusters,         \* self.n_clusters
    max_limit,          \* k_means.max_limit
    error_rate,         \* k_means.error_rate
    centroid,           \* k_means.centroid: dict cluster id -> float
    clusters,           \* k_means.clusters: dict cluster id -> list of rows
    current_error,      \* local of k_means.execute
    current_iteration,  \* local of k_means.execute
    metric,             \* value returned by the last get_metric() call
    cycle_metric,       \* history: get_metric() value after each cycle
    max_iteration,      \* gmm.max_iteration
    threshold,          \* gmm.threshold
    ric,                \* gmm.ric: N x K responsibility matrix
    mu,                 \* gmm.mu: mean of each gaussian
    cov,                \* gmm.cov: (1 x 1) covariance of each gaussian
    pi,                 \* gmm.pi: amplitude of each gaussian
    likelihood,         \* gmm.likelihood
    iterations,         \* local of gmm.execute
    delta,              \* local of gmm.execute
    dens,               \* value of the density of gaussian k at coordinate v
    X,                  \* argument of the last gmm.predict call
    labels              \* result of the last gmm.predict call

kmVars == <<max_limit, error_rate, centroid, clusters, current_error,
            current_iteration, metric, cycle_metric>>

gmmVars == <<max_iteration, threshold, ric, mu, cov, pi, likelihood,
             iterations, delta, dens, X, labels>>

vars == <<pc, input_data, n_clusters, kmVars, gmmVars>>

----------------------------------------------------------------------------
(* Bounds of the model *)

MaxN == 3
MaxCoord == 2
MaxK == 3
MaxLimit == 4

Coords == 0..MaxCoord

PointSets == UNION {[1..n -> Coords] : n \in 1..MaxN}

ErrorRates == {<<0, 1>>, <<1, 2>>}

----------------------------------------------------------------------------
(* Float arithmetic *)

NaN == <<0, 0>>
Inf == <<1, 0>>
NegInf == <<-1, 0>>

Abs(n) == IF n < 0 THEN -n ELSE n

RECURSIVE GCD(_, _)
GCD(a, b) == IF b = 0 THEN a ELSE GCD(b, a % b)

Norm(n, d) ==
    LET g == GCD(Abs(n), Abs(d))
        s == IF d < 0 THEN -1 ELSE 1
    IN  <<s * (n \div g), s * (d \div g)>>

IsNaN(x) == x = NaN
IsFinite(x) == x[2] > 0

FromInt(p) == <<p, 1>>

\* a - b
FSub(a, b) ==
    IF IsNaN(a) \/ IsNaN(b) THEN NaN
    ELSE IF ~IsFinite(a) /\ ~IsFinite(b)
         THEN (IF a = b THEN NaN ELSE a)
    ELSE IF ~IsFinite(a) THEN a
    ELSE IF ~IsFinite(b) THEN <<-b[1], 0>>
    ELSE Norm(a[1] * b[2] - b[1] * a[2], a[2] * b[2])

\* a + b
FAdd(a, b) == FSub(a, IF IsNaN(b) THEN NaN ELSE <<-b[1], b[2]>>)

\* abs(a)
FAbs(a) == <<Abs(a[1]), a[2]>>

\* a / k for an integer k > 0
FDivInt(a, k) == IF IsFinite(a) THEN Norm(a[1], a[2] * k) ELSE a

\* a * a
FSquare(a) == IF IsFinite(a) THEN <<a[1] * a[1], a[2] * a[2]>>
              ELSE IF IsNaN(a) THEN NaN ELSE Inf

Sign(n) == IF n < 0 THEN -1 ELSE IF n > 0 THEN 1 ELSE 0

\* a * b
FMul(a, b) ==
    IF IsNaN(a) \/ IsNaN(b) THEN NaN
    ELSE IF IsFinite(a) /\ IsFinite(b) THEN Norm(a[1] * b[1], a[2] * b[2])
    ELSE IF a[1] = 0 \/ b[1] = 0 THEN NaN
    ELSE <<Sign(a[1]) * Sign(b[1]), 0>>

\* a / b with numpy's float semantics: x/0 is +-inf, 0/0 is NaN
FDiv(a, b) ==
    IF IsNaN(a) \/ IsNaN(b) THEN NaN
    ELSE IF ~IsFinite(a) /\ ~IsFinite(b) THEN NaN
    ELSE IF ~IsFinite(b) THEN <<0, 1>>
    ELSE IF ~IsFinite(a) THEN (IF b[1] < 0 THEN <<-a[1], 0>> ELSE a)
    ELSE IF b[1] = 0 THEN <<Sign(a[1]), 0>>
    ELSE Norm(a[1] * b[2], a[2] * b[1])

\* a < b: False as soon as one side is NaN
FLt(a, b) ==
    IF IsNaN(a) \/ IsNaN(b) THEN FALSE
    ELSE IF ~IsFinite(a) THEN a = NegInf /\ b # NegInf
    ELSE IF ~IsFinite(b) THEN b = Inf
    ELSE a[1] * b[2] < b[1] * a[2]

FGt(a, b) == FLt(b, a)

FLe(a, b) == ~IsNaN(a) /\ ~IsNaN(b) /\ (a = b \/ FLt(a, b))

----------------------------------------------------------------------------
(* class k_means *)

Keys == 0..(n_clusters - 1)

NoKey == -1

Rows == 1..Len(input_data)

Point(idx) == FromInt(input_data[idx])

\* np.random.choice(N, n_clusters) drawing with replacement
RandomChoiceWithReplacement(N, K) == [0..(K - 1) -> 1..N]

\* np.random.choice(N, n_clusters, replace=False): the possible draws
RandomChoice(N, K) ==
    {c \in [0..(K - 1) -> 1..N] : \A i, j \in 0..(K - 1) : c[i] = c[j] => i = j}

\* np.linalg.norm(centroid - cluster) for one-dimensional rows
calculate_distance(c, p) == FAbs(FSub(c, p))

\* The loop of find_closest_centroid from key k on, with the locals
\* closest_dist and centroid_id (NoKey: not bound yet)
RECURSIVE ClosestFrom(_, _, _, _, _)
ClosestFrom(cent, point, k, closest_dist, centroid_id) ==
    IF k \notin DOMAIN cent THEN centroid_id
    ELSE LET dist == calculate_distance(cent[k], point)
         IN  IF FLt(dist, closest_dist)
             THEN ClosestFrom(cent, point, k + 1, dist, k)
             ELSE ClosestFrom(cent, point, k + 1, closest_dist, centroid_id)

find_closest_centroid(cent, point) == ClosestFrom(cent, point, 0, Inf, NoKey)

\* The loop of e_step from row idx on; ok is FALSE when find_closest_centroid
\* returned an unbound local (UnboundLocalError)
RECURSIVE EStepFrom(_, _, _)
EStepFrom(cent, cl, idx) ==
    IF idx > Len(input_data) THEN [clusters |-> cl, ok |-> TRUE]
    ELSE LET id_ == find_closest_centroid(cent, Point(idx))
         IN  IF id_ = NoKey THEN [clusters |-> cl, ok |-> FALSE]
             ELSE EStepFrom(cent, [cl EXCEPT ![id_] = Append(@, idx)], idx + 1)

RECURSIVE SumCoords(_)
SumCoords(list) ==
    IF list = <<>> THEN 0 ELSE input_data[Head(list)] + SumCoords(Tail(list))

\* A mean that divides by one more than the number of members
MeanOffByOne(list) ==
    IF list = <<>> THEN NaN ELSE Norm(SumCoords(list), Len(list) + 1)

\* np.mean(list_of_points, axis=0): NaN for an empty list
Mean(list) == IF list = <<>> THEN NaN ELSE Norm(SumCoords(list), Len(list))

\* m_step: the new centroid dict
m_step(cl) == [k \in DOMAIN cl |-> Mean(cl[k])]

RECURSIVE FSum(_, _)
FSum(f, S) ==
    IF S = {} THEN <<0, 1>>
    ELSE LET k == CHOOSE x \in S : TRUE
         IN  FAdd(f[k], FSum(f, S \ {k}))

\* np.mean(dif_list) of execute
MeanDisplacement(new_centroid, old_centroid) ==
    LET dif == [k \in DOMAIN new_centroid |->
                   FAbs(FSub(new_centroid[k], old_centroid[k]))]
    IN  FDivInt(FSum(dif, DOMAIN dif), Cardinality(DOMAIN dif))

RECURSIVE ListDistance(_, _)
ListDistance(c, list) ==
    IF list = <<>> THEN <<0, 1>>
    ELSE FAdd(calculate_distance(c, Point(Head(list))), ListDistance(c, Tail(list)))

\* get_metric
get_metric(cent, cl) ==
    FSum([k \in DOMAIN cl |-> ListDistance(cent[k], cl[k])], DOMAIN cl)

\* while current_error > self.error_rate and current_iteration < self.max_limit
LoopCondition == FGt(current_error, error_rate) /\ current_iteration < max_limit

EmptyDict == [k \in {} |-> 0]

\* No gmm object exists
GmmNotConstructed ==
    /\ max_iteration = 0 /\ threshold = NaN
    /\ ric = <<>> /\ mu = <<>> /\ cov = <<>> /\ pi = <<>>
    /\ likelihood = NaN /\ iterations = 0 /\ delta = NaN
    /\ dens = <<>> /\ X = <<>> /\ labels = <<>>

KMInit ==
    /\ pc = "created"
    /\ input_data \in PointSets
    /\ n_clusters \in 1..MaxK
    /\ max_limit \in 1..MaxLimit
    /\ error_rate \in ErrorRates
    /\ centroid = EmptyDict
    /\ clusters = EmptyDict
    /\ current_error = Inf
    /\ current_iteration = 1
    /\ metric = NaN
    /\ cycle_metric = <<>>
    /\ GmmNotConstructed

\* execute, line 109: np.random.choice raises ValueError when n_clusters
\* exceeds the number of rows
GenRandomCentroidFails ==
    /\ pc = "created"
    /\ n_clusters > Len(input_data)
    /\ pc' = "ValueError"
    /\ UNCHANGED <<input_data, n_clusters, kmVars, gmmVars>>

gen_random_centroid ==
    /\ pc = "created"
    /\ n_clusters <= Len(input_data)
    /\ \E choice \in RandomChoice(Len(input_data), n_clusters) :
          centroid' = [i \in Keys |-> Point(choice[i])]
    /\ clusters' = [i \in Keys |-> <<>>]
    /\ pc' = "loop"
    /\ UNCHANGED <<input_data, n_clusters, max_limit, error_rate,
                   current_error, current_iteration, metric, cycle_metric,
                   gmmVars>>

e_step ==
    /\ pc = "loop"
    /\ LoopCondition
    /\ LET r == EStepFrom(centroid, clusters, 1)
       IN  /\ clusters' = r.clusters
           /\ pc' = IF r.ok THEN "assigned" ELSE "UnboundLocalError"
    /\ UNCHANGED <<input_data, n_clusters, max_limit, error_rate, centroid,
                   current_error, current_iteration, metric, cycle_metric,
                   gmmVars>>

\* execute, lines 114-121
MStep ==
    /\ pc = "assigned"
    /\ centroid' = m_step(clusters)
    /\ current_error' = MeanDisplacement(centroid', centroid)
    /\ current_iteration' = current_iteration + 1
    /\ cycle_metric' = Append(cycle_metric, get_metric(centroid', clusters))
    /\ pc' = "loop"
    /\ UNCHANGED <<input_data, n_clusters, max_limit, error_rate, clusters,
                   metric, gmmVars>>

ExecuteReturns ==
    /\ pc = "loop"
    /\ ~LoopCondition
    /\ pc' = "fitted"
    /\ UNCHANGED <<input_data, n_clusters, kmVars, gmmVars>>

\* run_k_means, line 397
GetMetric ==
    /\ pc = "fitted"
    /\ metric' = get_metric(centroid, clusters)
    /\ pc' = "measured"
    /\ UNCHANGED <<input_data, n_clusters, max_limit, error_rate, centroid,
                   clusters, current_error, current_iteration, cycle_metric,
                   gmmVars>>

KMNext ==
    \/ GenRandomCentroidFails
    \/ gen_random_centroid
    \/ e_step
    \/ MStep
    \/ ExecuteReturns
    \/ GetMetric

Spec == KMInit /\ [][KMNext]_vars

----------------------------------------------------------------------------
(* class gmm *)

MaxRows == 3
MaxValue == 1
Gran == 3
MaxDens == 1
MaxLogL == 1
MaxIteration == 2

Thresholds == {<<1, 2>>}

Values == 0..MaxValue

GmmPointSets == UNION {[1..n -> Values] : n \in 1..MaxRows}

Zero == <<0, 1>>
One == <<1, 1>>

\* np.asarray([x, y, z]) of lines 186-189 for x = a/Gran and y = b/Gran
InitRow(a, b) ==
    LET x == Norm(a, Gran)
        y == Norm(b, Gran)
        z == FSub(One, FAdd(x, y))
    IN  [k \in 0..2 |-> IF k = 0 THEN x ELSE IF k = 1 THEN y ELSE z]

\* x = random.uniform(0, 1), y = random.uniform(0, 1 - x)
InitRows == UNION {{InitRow(a, b) : b \in 0..(Gran - a)} : a \in 0..Gran}

\* np.sum(self.ric[:, gaussian_id])
RicSum(r, k) == FSum([i \in DOMAIN r |-> r[i][k]], DOMAIN r)

\* calculate_mu: np.average(self.input_data, axis=0, weights=ric)
calculate_mu(r, k) ==
    FDiv(FSum([i \in DOMAIN r |-> FMul(r[i][k], Point(i))], DOMAIN r), RicSum(r, k))

\* calculate_pi
calculate_pi(r, k) == FDivInt(RicSum(r, k), Len(input_data))

\* calculate_sigma, with mean m already updated by calculate_mu
calculate_sigma(r, k, m) ==
    FDiv(FSum([i \in DOMAIN r |-> FMul(r[i][k], FSquare(FSub(Point(i), m)))],
              DOMAIN r),
         RicSum(r, k))

\* np.linalg.inv(self.cov[gaussian_id]) raises LinAlgError
Singular(k) == cov[k] = Zero

\* probability_density(i, gaussian_id) for a row index inside input_data and
\* an invertible covariance: the density at the coordinate of row i, where
\* d[v][k] is the value the float expression of lines 206-210 takes at
\* coordinate v for the current mu[k] and cov[k] (0: it underflows)
probability_density(d, i, k) == FromInt(d[input_data[i]][k])

\* summ of calculate_ric, temp of get_likelihood
Mixture(d, i) ==
    FSum([k \in Keys |-> FMul(pi[k], probability_density(d, i, k))], Keys)

\* calculate_ric for row i and gaussian g
calculate_ric(d, i, g) ==
    FDiv(FMul(pi[g], probability_density(d, i, g)), Mixture(d, i))

\* The loop over c of predict for row i, with the locals max_density and
\* labels[i]
RECURSIVE PredictFrom(_, _, _, _)
PredictFrom(i, c, max_density, label) ==
    IF c \notin Keys THEN label
    ELSE LET density == FMul(pi[c], probability_density(dens, i, c))
         IN  IF FLt(max_density, density)
             THEN PredictFrom(i, c + 1, density, c)
             ELSE PredictFrom(i, c + 1, max_density, label)

\* while delta > self.threshold and iterations < self.max_iteration
GmmLoopCondition == FGt(delta, threshold) /\ iterations < max_iteration

\* No k_means object exists
KMeansNotConstructed ==
    /\ max_limit = 0 /\ error_rate = NaN
    /\ centroid = EmptyDict /\ clusters = EmptyDict
    /\ current_error = NaN /\ current_iteration = 0
    /\ metric = NaN /\ cycle_metric = <<>>

GmmInit ==
    /\ pc = "new"
    /\ input_data \in GmmPointSets
    /\ n_clusters \in 1..MaxK
    /\ max_iteration \in 0..MaxIteration
    /\ threshold \in Thresholds
    /\ ric = <<>> /\ mu = <<>> /\ cov = <<>> /\ pi = <<>>
    /\ likelihood = NaN
    /\ iterations = 0
    /\ delta = Inf
    /\ dens = <<>> /\ X = <<>> /\ labels = <<>>
    /\ KMeansNotConstructed

\* __init__, line 189: a row of n_clusters entries cannot take [x, y, z]
\* unless n_clusters is 3 (ValueError: could not broadcast)
GmmConstructorFails ==
    /\ pc = "new"
    /\ n_clusters # 3
    /\ ric' = [i \in Rows |-> [k \in Keys |-> Norm(1, n_clusters)]]
    /\ pc' = "ValueError"
    /\ UNCHANGED <<input_data, n_clusters, kmVars, max_iteration, threshold,
                   mu, cov, pi, likelihood, iterations, delta, dens, X, labels>>

\* __init__
gmm_init ==
    /\ pc = "new"
    /\ n_clusters = 3
    /\ ric' \in [Rows -> InitRows]
    /\ mu' = [k \in Keys |-> Zero]
    /\ cov' = [k \in Keys |-> Zero]
    /\ pi' = [k \in Keys |-> Zero]
    /\ likelihood' = Zero
    /\ pc' = "constructed"
    /\ UNCHANGED <<input_data, n_clusters, kmVars, max_iteration, threshold,
                   iterations, delta, dens, X, labels>>

\* e_step: mean, amplitude and covariance of each gaussian in turn;
\* np.average raises ZeroDivisionError at the first gaussian whose weights
\* sum to zero
GmmEStep ==
    /\ pc = "constructed"
    /\ GmmLoopCondition
    /\ LET bad == {k \in Keys : RicSum(ric, k) = Zero}
           done == {k \in Keys : \A b \in bad : k < b}
       IN  /\ mu' = [k \in Keys |->
                        IF k \in done THEN calculate_mu(ric, k) ELSE mu[k]]
           /\ pi' = [k \in Keys |->
                        IF k \in done THEN calculate_pi(ric, k) ELSE pi[k]]
           /\ cov' = [k \in Keys |->
                        IF k \in done THEN calculate_sigma(ric, k, mu'[k])
                        ELSE cov[k]]
           /\ pc' = IF bad = {} THEN "estimated" ELSE "ZeroDivisionError"
    /\ UNCHANGED <<input_data, n_clusters, kmVars, max_iteration, threshold,
                   ric, likelihood, iterations, delta, dens, X, labels>>

\* m_step: probability_density raises LinAlgError for a singular covariance
\* before any responsibility is written; else the densities of the
\* re-estimated gaussians take their values and every responsibility is
\* recomputed from them
GmmMStep ==
    /\ pc = "estimated"
    /\ IF \E k \in Keys : Singular(k)
       THEN /\ pc' = "LinAlgError"
            /\ UNCHANGED <<ric, dens>>
       ELSE /\ dens' \in [Values -> [Keys -> 0..MaxDens]]
            /\ ric' = [i \in Rows |-> [g \in Keys |-> calculate_ric(dens', i, g)]]
            /\ pc' = "updated"
    /\ UNCHANGED <<input_data, n_clusters, kmVars, max_iteration, threshold,
                   mu, cov, pi, likelihood, iterations, delta, X, labels>>

\* execute, lines 305-308.  get_likelihood sums np.log of the mixture density
\* of each row: -inf as soon as one of them is 0, else some finite value.
UpdateLikelihood ==
    /\ pc = "updated"
    /\ \E lld \in IF \E i \in Rows : Mixture(dens, i) = Zero
                  THEN {NegInf}
                  ELSE {FromInt(l) : l \in (-MaxLogL)..MaxLogL} :
          /\ delta' = FSub(lld, likelihood)
          /\ likelihood' = lld
    /\ iterations' = iterations + 1
    /\ pc' = "constructed"
    /\ UNCHANGED <<input_data, n_clusters, kmVars, max_iteration, threshold,
                   ric, mu, cov, pi, dens, X, labels>>

GmmExecuteReturns ==
    /\ pc = "constructed"
    /\ ~GmmLoopCondition
    /\ pc' = "fitted"
    /\ UNCHANGED <<input_data, n_clusters, kmVars, gmmVars>>

\* predict(X): the density is read at self.input_data[i], whatever X holds.
\* A singular covariance raises LinAlgError; a row index past input_data
\* raises IndexError inside the try block of probability_density, which the
\* bare except turns into UnboundLocalError at "return probability".
predict ==
    /\ pc = "fitted"
    /\ X' \in GmmPointSets
    /\ IF \E k \in Keys : Singular(k)
       THEN pc' = "LinAlgError" /\ UNCHANGED labels
       ELSE IF Len(X') > Len(input_data)
       THEN pc' = "UnboundLocalError" /\ UNCHANGED labels
       ELSE /\ labels' = [i \in 1..Len(X') |-> PredictFrom(i, 0, Zero, 0)]
            /\ pc' = "predicted"
    /\ UNCHANGED <<input_data, n_clusters, kmVars, max_iteration, threshold,
                   ric, mu, cov, pi, likelihood, iterations, delta, dens>>

GmmNext ==
    \/ GmmConstructorFails
    \/ gmm_init
    \/ GmmEStep
    \/ GmmMStep
    \/ UpdateLikelihood
    \/ GmmExecuteReturns
    \/ predict

SpecGMM == GmmInit /\ [][GmmNext]_vars

----------------------------------------------------------------------------
(* Properties of the K-Means fit *)

\* Number of times row idx occurs in a member list, and in all of them
RECURSIVE Count(_, _)
Count(list, idx) ==
    IF list = <<>> THEN 0
    ELSE (IF Head(list) = idx THEN 1 ELSE 0) + Count(Tail(list), idx)

RECURSIVE Occurrences(_, _)
Occurrences(S, idx) ==
    IF S = {} THEN 0
    ELSE LET k == CHOOSE x \in S : TRUE
         IN  Count(clusters[k], idx) + Occurrences(S \ {k}, idx)

\* Completed E-step/M-step cycles of k_means.execute
Cycles == current_iteration - 1

\* C1: after every E-step of a fit with K <= N, every row of the input set is
\* a member of exactly one cluster list (the lists are disjoint and cover
\* the input set).
C1_PartitionAfterEStep ==
    (pc = "assigned" /\ n_clusters <= Len(input_data))
        => \A idx \in Rows : Occurrences(DOMAIN clusters, idx) = 1

\* C2: execute stops exactly when the displacement of the last cycle is at or
\* below error_rate or the number of completed cycles has reached max_limit,
\* and runs another cycle otherwise.
C2_StopsAtErrorOrMaxIterations ==
    /\ pc = "fitted" => (FLe(current_error, error_rate) \/ Cycles = max_limit)
    /\ pc = "assigned" => (~FLe(current_error, error_rate) /\ Cycles < max_limit)

\* C6: after a fit of at least one cycle, get_metric is the sum, over every
\* row counted once, of the distance between the row and the centroid of a
\* cluster that holds the row.
C6_MetricCountsEachPointOnce ==
    (pc = "measured" /\ Cycles >= 1)
        => \E a \in [Rows -> DOMAIN clusters] :
              /\ \A idx \in Rows : Count(clusters[a[idx]], idx) >= 1
              /\ metric = FSum([idx \in Rows |->
                                   calculate_distance(centroid[a[idx]], Point(idx))],
                               Rows)

\* C7: with more clusters than rows the fit fails before any E-step or M-step
\* (no centroid, no cluster, no cycle); with K <= N the state right after
\* initialization holds the coordinates of K pairwise distinct rows as
\* centroids and K empty clusters.
C7_InitFailsOrPicksDistinctRows ==
    /\ n_clusters > Len(input_data)
          => /\ pc \in {"created", "ValueError"}
             /\ centroid = EmptyDict /\ clusters = EmptyDict
             /\ Cycles = 0
    /\ pc = "ValueError" => n_clusters > Len(input_data)
    /\ (pc = "loop" /\ Cycles = 0)
          => /\ DOMAIN centroid = Keys /\ DOMAIN clusters = Keys
             /\ \A k \in Keys : clusters[k] = <<>>
             /\ \E c \in [Keys -> Rows] :
                   /\ \A i, j \in Keys : c[i] = c[j] => i = j
                   /\ \A i \in Keys : centroid[i] = FromInt(input_data[c[i]])

C7_Witness == pc = "ValueError" /\ n_clusters > Len(input_data)

\* C8 as claimed: the metric after a cycle is at most the metric after the
\* cycle before it, and an M-step does not raise the total distance of the
\* members to their centroid.
C8_MetricNeverIncreases ==
    /\ [](\A t \in 1..(Len(cycle_metric) - 1) :
             FLe(cycle_metric[t + 1], cycle_metric[t]))
    /\ [][pc = "assigned" =>
             FLe(get_metric(centroid', clusters'), get_metric(centroid, clusters))]_vars

RECURSIVE ListSquares(_, _)
ListSquares(c, list) ==
    IF list = <<>> THEN <<0, 1>>
    ELSE FAdd(FSquare(calculate_distance(c, Point(Head(list)))),
              ListSquares(c, Tail(list)))

SumOfSquares(cent, cl) ==
    FSum([k \in DOMAIN cl |-> ListSquares(cent[k], cl[k])], DOMAIN cl)

\* C8 amended: an M-step does not raise the total SQUARED distance of the
\* members of the (unchanged) cluster lists to their cluster's centroid.
C8_MStepLowersSquares ==
    [][pc = "assigned" =>
          FLe(SumOfSquares(centroid', clusters'), SumOfSquares(centroid, clusters))]_vars

C8_Witness ==
    /\ pc = "loop" /\ Cycles >= 1
    /\ FGt(current_error, <<0, 1>>)
    /\ \E k \in DOMAIN clusters : Len(clusters[k]) >= 2

\* C10: a fit never returns with an undefined (NaN) centroid, and no E-step
\* fails to find a cluster index for a row.
C10_NoNaNCentroidReturned ==
    /\ pc \in {"fitted", "measured"} => \A k \in DOMAIN centroid : ~IsNaN(centroid[k])
    /\ pc # "UnboundLocalError"

----------------------------------------------------------------------------
(* Properties of the GMM fit *)

\* C3: gmm.execute stops after an iteration exactly when the absolute change
\* of the log-likelihood is at or below threshold or the iteration count has
\* reached max_iteration, and runs another iteration otherwise.  The stop is
\* stated for a finite change, so that a violation does not rest on a
\* log-likelihood of -inf.
C3_StopsOnAbsoluteChange ==
    /\ (pc = "fitted" /\ IsFinite(delta))
          => (FLe(FAbs(delta), threshold) \/ iterations = max_iteration)
    /\ pc = "estimated"
          => (FGt(FAbs(delta), threshold) /\ iterations < max_iteration)

\* C4: after every responsibility update each row of ric has non-negative
\* entries that sum to 1.
C4_RowsAreDistributions ==
    pc = "updated"
        => \A i \in Rows :
              /\ \A k \in Keys : FLe(Zero, ric[i][k])
              /\ FSum(ric[i], Keys) = One

\* C5: predict(X) labels row i of X with the lowest index among the gaussians
\* that maximize weight times density at the coordinates of X[i].
C5_PredictLabelsRowsOfX ==
    pc = "predicted"
        => /\ Len(labels) = Len(X)
           /\ \A i \in 1..Len(X) :
                 LET w == [k \in Keys |-> FMul(pi[k], FromInt(dens[X[i]][k]))]
                 IN  /\ labels[i] \in Keys
                     /\ \A k \in Keys : FLe(w[k], w[labels[i]])
                     /\ \A k \in Keys : k < labels[i] => FLt(w[k], w[labels[i]])

\* C9: for every n_clusters >= 1 the constructor succeeds and leaves each row
\* of ric with n_clusters non-negative entries that sum to 1, and mu, cov and
\* pi at zero.
C9_InitForEveryK ==
    /\ pc # "ValueError"
    /\ (pc = "constructed" /\ iterations = 0)
          => /\ \A i \in Rows :
                   /\ DOMAIN ric[i] = Keys
                   /\ \A k \in Keys : FLe(Zero, ric[i][k])
                   /\ FSum(ric[i], Keys) = One
             /\ \A k \in Keys : mu[k] = Zero /\ cov[k] = Zero /\ pi[k] = Zero

====
